---- MODULE Spec2Model ----
(***************************************************************************)
(* A model of the football league scheduling application: the League       *)
(* container (src/src/domain), the round-robin pairing generator and the   *)
(* home/away balancer (src/src/scheduling/scheduler.py), the fixture       *)
(* scheduler (src/member_b_abhishek/fixture_scheduler.py), the results     *)
(* manager (src/member_c_neel/results_manager.py) and the league table     *)
(* (src/src/domain/table.py).                                              *)
(*                                                                         *)
(* Representation.  Python's None is the empty sequence <<>> and a present *)
(* value x is <<x>> (scores, dates); an absent team_id argument is the     *)
(* empty string, which Team.__post_init__ treats like None.  A date is     *)
(* <<year, month, day>>.  A match_id "w{week}_{home}_vs_{away}" is the     *)
(* triple <<week, home, away>>: the formatting is injective on the team    *)
(* ids used here (none contains "_vs_").                                   *)
(***************************************************************************)
EXTENDS Integers, Sequences, FiniteSets, TLC

\* scheduler holds the fields _rounds and _balanced_rounds of the staged
\* FixtureScheduler, and in succeeded the history of its steps: the names of
\* the steps that have returned success so far
VARIABLES teams, matches, fixtures_generated, last, scheduler

vars == <<teams, matches, fixtures_generated, last, scheduler>>

\* FixtureScheduler.__init__ of the staged scheduler
NewScheduler == [rounds |-> <<>>, balanced_rounds |-> <<>>, succeeded |-> {}]

None == <<>>
Some(x) == <<x>>

(***************************************************************************)
(* Bounds of the model.                                                    *)
(***************************************************************************)
MaxPairTeams == 6

(***************************************************************************)
(* Strings.  The names the model draws from, with str.lower() and          *)
(* str.replace(" ", "_") tabulated over them, and Python's ordering of the *)
(* lower-cased names as their rank in sorted order.                        *)
(***************************************************************************)
Names == {"Ajax", "AJAX", "Bye", "Cork", "Derby", "Real Eire", "Fahy", "Gort", "X"}

Lower(s) ==
    CASE s = "Ajax" -> "ajax"
      [] s = "AJAX" -> "ajax"
      [] s = "Bye" -> "bye"
      [] s = "BYE" -> "bye"
      [] s = "Cork" -> "cork"
      [] s = "Derby" -> "derby"
      [] s = "Real Eire" -> "real eire"
      [] s = "Fahy" -> "fahy"
      [] s = "Gort" -> "gort"
      [] s = "X" -> "x"
      [] s = "Zed" -> "zed"
      [] s = "ZED" -> "zed"
      [] OTHER -> s

SpacesToUnderscores(s) ==
    IF s = "real eire" THEN "real_eire" ELSE s

\* len(s.strip()) for the strings of the model
StripLen(s) ==
    CASE s = "" -> 0
      [] s = "X" -> 1
      [] s = "P" -> 1
      [] s = "Ajax" -> 4
      [] s = "AJAX" -> 4
      [] s = "Bye" -> 3
      [] s = "BYE" -> 3
      [] s = "Cork" -> 4
      [] s = "Derby" -> 5
      [] s = "Real Eire" -> 9
      [] s = "Fahy" -> 4
      [] s = "Gort" -> 4
      [] s = "Zed" -> 3
      [] s = "ZED" -> 3
      [] s = "N/A" -> 3
      [] s = "Park" -> 4
      [] s = "Arena" -> 5
      [] OTHER -> 2

\* Team.__post_init__ and the dataclass defaults
Team(name, stadium, team_id) ==
    [team_id |-> IF team_id = "" THEN SpacesToUnderscores(Lower(name)) ELSE team_id,
     name |-> name, stadium |-> stadium,
     played |-> 0, won |-> 0, drawn |-> 0, lost |-> 0,
     goals_for |-> 0, goals_against |-> 0, points |-> 0]

goal_difference(t) == t.goals_for - t.goals_against

ByeTeam == Team("BYE", "N/A", "bye")

(***************************************************************************)
(* generate_round_robin_pairs: the circle method.                          *)
(***************************************************************************)
Range(s) == {s[i] : i \in DOMAIN s}

\* the inner loop over i in range(n // 2), Python's index i being i0
PairAt(team_list, n, round_num, i0) ==
    LET team1 == team_list[i0 + 1]
        team2 == team_list[n - i0]
    IN  IF (round_num + i0) % 2 = 0 THEN <<team1, team2>> ELSE <<team2, team1>>

RECURSIVE RoundMatches(_, _, _, _)
RoundMatches(team_list, n, round_num, i0) ==
    IF i0 >= n \div 2 THEN <<>>
    ELSE LET team1 == team_list[i0 + 1]
             team2 == team_list[n - i0]
             rest == RoundMatches(team_list, n, round_num, i0 + 1)
         IN  IF team1.team_id = "bye" \/ team2.team_id = "bye"
             THEN rest
             ELSE <<PairAt(team_list, n, round_num, i0)>> \o rest

\* a rotation that does not keep the first team fixed
RotateAll(team_list) ==
    LET n == Len(team_list)
    IN  <<team_list[n]>> \o SubSeq(team_list, 1, n - 1)

\* team_list = [team_list[0]] + [team_list[-1]] + team_list[1:-1]
Rotate(team_list) ==
    LET n == Len(team_list)
    IN  <<team_list[1]>> \o <<team_list[n]>> \o SubSeq(team_list, 2, n - 1)

RECURSIVE RoundsFrom(_, _, _)
RoundsFrom(team_list, n, round_num) ==
    IF round_num >= n - 1 THEN <<>>
    ELSE <<RoundMatches(team_list, n, round_num, 0)>>
         \o RoundsFrom(Rotate(team_list), n, round_num + 1)

generate_round_robin_pairs(ts) ==
    IF Len(ts) < 2 THEN <<>>
    ELSE LET padded == IF Len(ts) % 2 # 0 THEN Append(ts, ByeTeam) ELSE ts
         IN  RoundsFrom(padded, Len(padded), 0)

(***************************************************************************)
(* The specification of the pairing generator alone: the roster is any     *)
(* list of teams with pairwise distinct ids, and the call's result is kept  *)
(* in last.ret.                                                            *)
(***************************************************************************)
PairNames == {"Ajax", "Bye", "Cork", "Derby", "Real Eire", "Fahy", "Gort"}

DistinctIds(ts) ==
    \A i, j \in DOMAIN ts : i # j => ts[i].team_id # ts[j].team_id

PairRosters ==
    {ts \in UNION {[1..k -> {Team(nm, "Park", "") : nm \in PairNames}] :
                     k \in 0..MaxPairTeams} : DistinctIds(ts)}

InitPairs ==
    /\ teams \in PairRosters
    /\ matches = <<>>
    /\ fixtures_generated = FALSE
    /\ last = [op |-> "init"]
    /\ scheduler = NewScheduler

CallPairs ==
    /\ last.op = "init"
    /\ last' = [op |-> "generate_round_robin_pairs",
                ret |-> generate_round_robin_pairs(teams)]
    /\ UNCHANGED <<teams, matches, fixtures_generated, scheduler>>

NextPairs == CallPairs

SpecPairs == InitPairs /\ [][NextPairs]_vars

(***************************************************************************)
(* C1.                                                                     *)
(***************************************************************************)
IdsOf(ts) == {ts[i].team_id : i \in DOMAIN ts}

\* the two ids of a (home, away) pair
PairIds(p) == {p[1].team_id, p[2].team_id}

\* number of (round, position) places whose pair is the unordered pair {a, b}
Meetings(rounds, a, b) ==
    Cardinality({rp \in {<<r, k>> : r \in DOMAIN rounds, k \in 1..MaxPairTeams} :
                    /\ rp[2] \in DOMAIN rounds[rp[1]]
                    /\ PairIds(rounds[rp[1]][rp[2]]) = {a, b}})

\* number of places of round r in which team a appears
Appearances(round, a) ==
    Cardinality({k \in DOMAIN round : a \in PairIds(round[k])})

IsSingleRoundRobin(rounds, ts) ==
    LET n == Len(ts)
    IN  /\ Len(rounds) = n - 1
        /\ \A r \in DOMAIN rounds :
              /\ Len(rounds[r]) = n \div 2
              /\ \A k \in DOMAIN rounds[r] :
                    /\ rounds[r][k][1] \in Range(ts)
                    /\ rounds[r][k][2] \in Range(ts)
              /\ \A a \in IdsOf(ts) : Appearances(rounds[r], a) = 1
        /\ \A a, b \in IdsOf(ts) : a # b => Meetings(rounds, a, b) = 1

EvenRoster(ts) == Len(ts) >= 2 /\ Len(ts) % 2 = 0

\* C1: for every roster of even size N >= 2 with pairwise distinct team ids,
\* none equal to the placeholder id "bye", generate_round_robin_pairs returns
\* exactly N-1 rounds, every round has exactly N/2 pairs in which each team
\* appears exactly once, and every unordered pair of distinct teams appears in
\* exactly one round over the whole output.
C1_RoundRobin ==
    (/\ last.op = "generate_round_robin_pairs"
     /\ EvenRoster(teams)
     /\ "bye" \notin IdsOf(teams))
        => IsSingleRoundRobin(last.ret, teams)

C1_Witness ==
    /\ last.op = "generate_round_robin_pairs"
    /\ Len(teams) = 6
    /\ "bye" \notin IdsOf(teams)
    /\ Len(last.ret) = 5

(***************************************************************************)
(* Match and the fixture integrity validator.                              *)
(***************************************************************************)
\* Match(...) as generate_fixtures constructs it; the other fields default
Match(match_id, home_team_id, away_team_id, home_team_name, away_team_name, week, scheduled_date) ==
    [match_id |-> match_id, home_team_id |-> home_team_id,
     away_team_id |-> away_team_id, week |-> week,
     home_team_name |-> home_team_name, away_team_name |-> away_team_name,
     home_score |-> None, away_score |-> None, played |-> FALSE,
     scheduled_date |-> scheduled_date]

is_played(m) == m.played /\ m.home_score # None /\ m.away_score # None

\* tuple(sorted([home_team_id, away_team_id])): equal exactly when the two
\* matches have the same set of ids
SortedPair(m) == {m.home_team_id, m.away_team_id}

\* a duplicate check that only looks for the pair within the same week
RECURSIVE DuplicateErrorsPerWeek(_, _, _)
DuplicateErrorsPerWeek(ms, i, seen_pairs) ==
    IF i > Len(ms) THEN <<>>
    ELSE IF <<ms[i].week, SortedPair(ms[i])>> \in seen_pairs
         THEN <<<<"Duplicate match", ms[i].home_team_name, ms[i].away_team_name>>>>
              \o DuplicateErrorsPerWeek(ms, i + 1, seen_pairs)
         ELSE DuplicateErrorsPerWeek(ms, i + 1,
                  seen_pairs \cup {<<ms[i].week, SortedPair(ms[i])>>})

\* first loop of validate_fixtures (seen_pairs is the set of pairs seen)
RECURSIVE DuplicateErrors(_, _, _)
DuplicateErrors(ms, i, seen_pairs) ==
    IF i > Len(ms) THEN <<>>
    ELSE IF SortedPair(ms[i]) \in seen_pairs
         THEN <<<<"Duplicate match", ms[i].home_team_name, ms[i].away_team_name>>>>
              \o DuplicateErrors(ms, i + 1, seen_pairs)
         ELSE DuplicateErrors(ms, i + 1, seen_pairs \cup {SortedPair(ms[i])})

RECURSIVE SelfMatchErrors(_, _)
SelfMatchErrors(ms, i) ==
    IF i > Len(ms) THEN <<>>
    ELSE (IF ms[i].home_team_id = ms[i].away_team_id
          THEN <<<<"Invalid match", ms[i].match_id>>>> ELSE <<>>)
         \o SelfMatchErrors(ms, i + 1)

RECURSIVE ReferenceErrors(_, _, _)
ReferenceErrors(ms, i, valid_team_ids) ==
    IF i > Len(ms) THEN <<>>
    ELSE (IF ms[i].home_team_id \notin valid_team_ids
          THEN <<<<"Invalid home team ID", ms[i].match_id, ms[i].home_team_id>>>>
          ELSE <<>>)
         \o (IF ms[i].away_team_id \notin valid_team_ids
             THEN <<<<"Invalid away team ID", ms[i].match_id, ms[i].away_team_id>>>>
             ELSE <<>>)
         \o ReferenceErrors(ms, i + 1, valid_team_ids)

\* week_teams is the set of (week, team id) entries of the dict of sets
RECURSIVE WeekClashErrors(_, _, _)
WeekClashErrors(ms, i, week_teams) ==
    IF i > Len(ms) THEN <<>>
    ELSE LET m == ms[i]
         IN  (IF <<m.week, m.home_team_id>> \in week_teams
              THEN <<<<"Week clash", m.home_team_name, m.week>>>> ELSE <<>>)
             \o (IF <<m.week, m.away_team_id>> \in week_teams
                 THEN <<<<"Week clash", m.away_team_name, m.week>>>> ELSE <<>>)
             \o WeekClashErrors(ms, i + 1,
                    week_teams \cup {<<m.week, m.home_team_id>>,
                                     <<m.week, m.away_team_id>>})

\* a validator that stops at the first check that reports anything
validate_fixtures_first_only(ms, ts) ==
    LET dup == DuplicateErrors(ms, 1, {})
        self == SelfMatchErrors(ms, 1)
        ref == ReferenceErrors(ms, 1, {ts[i].team_id : i \in DOMAIN ts})
        clash == WeekClashErrors(ms, 1, {})
        errors == IF dup # <<>> THEN dup
                  ELSE IF self # <<>> THEN self
                  ELSE IF ref # <<>> THEN ref ELSE clash
    IN  <<Len(errors) = 0, errors>>

\* validate_fixtures returns (is_valid, errors)
validate_fixtures(ms, ts) ==
    LET errors == DuplicateErrors(ms, 1, {})
                  \o SelfMatchErrors(ms, 1)
                  \o ReferenceErrors(ms, 1, {ts[i].team_id : i \in DOMAIN ts})
                  \o WeekClashErrors(ms, 1, {})
    IN  <<Len(errors) = 0, errors>>

(***************************************************************************)
(* The specification of the validator alone.  validate_fixtures reads any  *)
(* match list the league holds (League.from_dict loads any list): the      *)
(* match list is any list of fixtures over ValPairs and ValWeeks, the      *)
(* roster one of ValRosters.                                               *)
(***************************************************************************)
MaxValMatches == 3

ValWeeks == {1, 2, 3}

ValPairs == {<<"ajax", "bye">>, <<"bye", "ajax">>, <<"ajax", "cork">>,
             <<"ajax", "ajax">>}

ValName(id) ==
    CASE id = "ajax" -> "Ajax" [] id = "bye" -> "Bye" [] id = "cork" -> "Cork"

ValRosters ==
    {<<Team("Ajax", "Park", ""), Team("Bye", "Park", ""), Team("Cork", "Park", "")>>,
     <<Team("Ajax", "Park", ""), Team("Bye", "Park", "")>>}

ValMatches ==
    {Match(<<w, p[1], p[2]>>, p[1], p[2], ValName(p[1]), ValName(p[2]), w, None) :
        w \in ValWeeks, p \in ValPairs}

InitValidate ==
    /\ teams \in ValRosters
    /\ matches \in UNION {[1..k -> ValMatches] : k \in 0..MaxValMatches}
    /\ fixtures_generated = TRUE
    /\ last = [op |-> "init"]
    /\ scheduler = NewScheduler

CallValidate ==
    /\ last.op = "init"
    /\ last' = [op |-> "validate_fixtures", ret |-> validate_fixtures(matches, teams)]
    /\ UNCHANGED <<teams, matches, fixtures_generated, scheduler>>

NextValidate == CallValidate

SpecValidate == InitValidate /\ [][NextValidate]_vars

(***************************************************************************)
(* C9 and C10.                                                             *)
(***************************************************************************)
NoRepeatedPair(ms) ==
    \A i, j \in DOMAIN ms : i < j => SortedPair(ms[i]) # SortedPair(ms[j])

NoSelfMatch(ms) ==
    \A i \in DOMAIN ms : ms[i].home_team_id # ms[i].away_team_id

AllInRoster(ms, ts) ==
    \A i \in DOMAIN ms : {ms[i].home_team_id, ms[i].away_team_id} \subseteq IdsOf(ts)

\* no team is in two different matches of one week
NoWeekClash(ms) ==
    \A i, j \in DOMAIN ms :
        (i # j /\ ms[i].week = ms[j].week)
            => SortedPair(ms[i]) \cap SortedPair(ms[j]) = {}

ErrorsOfKind(errors, kinds) == {k \in DOMAIN errors : errors[k][1] \in kinds}

\* C9: validate_fixtures returns is_valid = true exactly when the error list
\* is empty, which is exactly when no unordered pair occurs more than once, no
\* match is a self-match, every home and away id is in the roster and no team
\* is in two matches of one week; and each of the four checks reports an
\* error exactly when the schedule violates it, whatever the other checks say.
C9_ValidateAllChecks ==
    last.op = "validate_fixtures" =>
        LET is_valid == last.ret[1]
            errors == last.ret[2]
        IN  /\ is_valid <=> (Len(errors) = 0)
            /\ is_valid <=> (/\ NoRepeatedPair(matches)
                             /\ NoSelfMatch(matches)
                             /\ AllInRoster(matches, teams)
                             /\ NoWeekClash(matches))
            /\ (ErrorsOfKind(errors, {"Duplicate match"}) # {})
                    <=> ~NoRepeatedPair(matches)
            /\ (ErrorsOfKind(errors, {"Invalid match"}) # {})
                    <=> ~NoSelfMatch(matches)
            /\ (ErrorsOfKind(errors, {"Invalid home team ID",
                                      "Invalid away team ID"}) # {})
                    <=> ~AllInRoster(matches, teams)
            /\ (ErrorsOfKind(errors, {"Week clash"}) # {})
                    <=> ~NoWeekClash(matches)

\* a schedule that violates all four checks at once and gets all four kinds
C9_Witness ==
    /\ last.op = "validate_fixtures"
    /\ ~NoRepeatedPair(matches) /\ ~NoSelfMatch(matches)
    /\ ~AllInRoster(matches, teams) /\ ~NoWeekClash(matches)
    /\ \A kind \in {"Duplicate match", "Invalid match", "Week clash"} :
          ErrorsOfKind(last.ret[2], {kind}) # {}

\* how often the unordered pair of match m occurs in ms
Occurrences(ms, m) ==
    Cardinality({i \in DOMAIN ms : SortedPair(ms[i]) = SortedPair(m)})

\* the duplicate errors that name the two teams of match m
DuplicateErrorsFor(errors, m) ==
    {k \in ErrorsOfKind(errors, {"Duplicate match"}) :
        {errors[k][2], errors[k][3]} = {m.home_team_name, m.away_team_name}}

\* C10: a pair occurring k times in the schedule (any weeks, either
\* orientation) yields exactly k-1 duplicate errors, and when there is no
\* self-match, no id outside the roster and no week clash (so the repeats are
\* in different weeks), every error reported is a duplicate error.
C10_DuplicatePerRepeat ==
    last.op = "validate_fixtures" =>
        LET errors == last.ret[2]
        IN  /\ \A i \in DOMAIN matches :
                  Cardinality(DuplicateErrorsFor(errors, matches[i]))
                      = Occurrences(matches, matches[i]) - 1
            /\ (/\ NoSelfMatch(matches)
                /\ AllInRoster(matches, teams)
                /\ NoWeekClash(matches))
                  => ErrorsOfKind(errors, {"Duplicate match"}) = DOMAIN errors

\* the same pair in weeks 1, 2 and 3, in both orientations: two errors, both
\* duplicates
C10_Witness ==
    /\ last.op = "validate_fixtures"
    /\ Len(matches) = 3
    /\ \A i \in DOMAIN matches : SortedPair(matches[i]) = {"ajax", "bye"}
    /\ {matches[i].week : i \in DOMAIN matches} = {1, 2, 3}
    /\ {matches[i].home_team_id : i \in DOMAIN matches} = {"ajax", "bye"}
    /\ Len(last.ret[2]) = 2
    /\ ErrorsOfKind(last.ret[2], {"Duplicate match"}) = {1, 2}

(***************************************************************************)
(* The league table: get_rankings and get_table_data.                      *)
(***************************************************************************)
\* Python's order of the lower-cased names of the model, as a rank
StrRank(s) ==
    CASE s = "ajax" -> 1 [] s = "bye" -> 2 [] s = "cork" -> 3
      [] s = "derby" -> 4 [] s = "fahy" -> 5 [] s = "gort" -> 6
      [] s = "real eire" -> 7 [] s = "x" -> 8 [] s = "zed" -> 9

\* the sort key of get_rankings
RankKey(t) == <<0 - t.points, 0 - goal_difference(t), 0 - t.goals_for, Lower(t.name)>>

\* a comparison of keys that leaves out the name
KeyLessNoName(k1, k2) ==
    \/ k1[1] < k2[1]
    \/ k1[1] = k2[1] /\ k1[2] < k2[2]
    \/ k1[1] = k2[1] /\ k1[2] = k2[2] /\ k1[3] < k2[3]

\* Python's tuple comparison k1 < k2 of two keys
KeyLess(k1, k2) ==
    \/ k1[1] < k2[1]
    \/ k1[1] = k2[1] /\ k1[2] < k2[2]
    \/ k1[1] = k2[1] /\ k1[2] = k2[2] /\ k1[3] < k2[3]
    \/ k1[1] = k2[1] /\ k1[2] = k2[2] /\ k1[3] = k2[3]
          /\ StrRank(k1[4]) < StrRank(k2[4])

\* sorted() is stable: an element goes after every element whose key is not
\* greater than its own
RECURSIVE InsertStable(_, _)
InsertStable(sorted, t) ==
    IF sorted = <<>> THEN <<t>>
    ELSE IF KeyLess(RankKey(t), RankKey(Head(sorted)))
         THEN <<t>> \o sorted
         ELSE <<Head(sorted)>> \o InsertStable(Tail(sorted), t)

RECURSIVE SortedFrom(_, _, _)
SortedFrom(ts, i, acc) ==
    IF i > Len(ts) THEN acc ELSE SortedFrom(ts, i + 1, InsertStable(acc, ts[i]))

get_rankings(ts) == SortedFrom(ts, 1, <<>>)

get_table_data(ts) ==
    LET rankings == get_rankings(ts)
    IN  [pos \in 1..Len(rankings) |->
            [position |-> pos, team |-> rankings[pos].name,
             played |-> rankings[pos].played, won |-> rankings[pos].won,
             drawn |-> rankings[pos].drawn, lost |-> rankings[pos].lost,
             goals_for |-> rankings[pos].goals_for,
             goals_against |-> rankings[pos].goals_against,
             goal_difference |-> goal_difference(rankings[pos]),
             points |-> rankings[pos].points]]

(***************************************************************************)
(* The specification of the table alone: the table's teams are any list of *)
(* teams with distinct ids, names from RankNames (two of them equal when   *)
(* lower-cased, as edit_team allows) and statistics from RankStats, each   *)
(* the statistics of a team after one or two results.                      *)
(***************************************************************************)
MaxRankTeams == 3

RankNames == {"Ajax", "AJAX", "Cork"}

RankIds == <<"t1", "t2", "t3", "t4", "t5">>

\* <<played, won, drawn, lost, goals_for, goals_against, points>>
RankStats == {<<0, 0, 0, 0, 0, 0, 0>>,
              <<1, 1, 0, 0, 1, 0, 3>>,
              <<1, 1, 0, 0, 2, 1, 3>>,
              <<1, 1, 0, 0, 2, 0, 3>>,
              <<2, 0, 1, 1, 1, 2, 1>>}

WithStats(t, st) ==
    [t EXCEPT !.played = st[1], !.won = st[2], !.drawn = st[3], !.lost = st[4],
              !.goals_for = st[5], !.goals_against = st[6], !.points = st[7]]

\* the rosters of k teams
RankRosters(k) ==
    {[i \in 1..k |-> WithStats(Team(f[i][1], "Park", RankIds[i]), f[i][2])] :
        f \in [1..k -> RankNames \X RankStats]}

InitRank ==
    /\ \E k \in 0..MaxRankTeams : teams \in RankRosters(k)
    /\ matches = <<>>
    /\ fixtures_generated = FALSE
    /\ last = [op |-> "init"]
    /\ scheduler = NewScheduler

CallTable ==
    /\ last.op = "init"
    /\ last' = [op |-> "get_table_data", rankings |-> get_rankings(teams),
                ret |-> get_table_data(teams)]
    /\ UNCHANGED <<teams, matches, fixtures_generated, scheduler>>

NextRank == CallTable

SpecRank == InitRank /\ [][NextRank]_vars

(***************************************************************************)
(* C6.                                                                     *)
(***************************************************************************)
SameRankKeys(a, b) ==
    /\ a.points = b.points
    /\ a.goals_for - a.goals_against = b.goals_for - b.goals_against
    /\ a.goals_for = b.goals_for
    /\ Lower(a.name) = Lower(b.name)

\* a ranks strictly above b
RanksAbove(a, b) ==
    \/ a.points > b.points
    \/ /\ a.points = b.points
       /\ a.goals_for - a.goals_against > b.goals_for - b.goals_against
    \/ /\ a.points = b.points
       /\ a.goals_for - a.goals_against = b.goals_for - b.goals_against
       /\ a.goals_for > b.goals_for
    \/ /\ a.points = b.points
       /\ a.goals_for - a.goals_against = b.goals_for - b.goals_against
       /\ a.goals_for = b.goals_for
       /\ StrRank(Lower(a.name)) < StrRank(Lower(b.name))

\* the place of the team with id tid in the list ts
IndexOf(ts, tid) == CHOOSE i \in DOMAIN ts : ts[i].team_id = tid

\* C6: get_rankings/get_table_data return a permutation of the table's teams
\* ordered by points descending, then goal difference descending, then
\* goals_for descending, then lower-cased name ascending; teams equal on all
\* four keys keep their roster order; the positions of get_table_data are
\* 1..n in that order.
C6_Rankings ==
    last.op = "get_table_data" =>
        LET rankings == last.rankings
            table == last.ret
        IN  /\ Len(rankings) = Len(teams)
            /\ Range(rankings) = Range(teams)
            /\ \A i, j \in DOMAIN rankings :
                  i < j =>
                     /\ ~RanksAbove(rankings[j], rankings[i])
                     /\ SameRankKeys(rankings[i], rankings[j])
                          => IndexOf(teams, rankings[i].team_id)
                               < IndexOf(teams, rankings[j].team_id)
            /\ DOMAIN table = 1..Len(teams)
            /\ \A pos \in DOMAIN table :
                  /\ table[pos].position = pos
                  /\ table[pos].team = rankings[pos].name
                  /\ table[pos].points = rankings[pos].points
                  /\ table[pos].goal_difference
                        = rankings[pos].goals_for - rankings[pos].goals_against

\* three teams level on points; the first two places are decided by goal
\* difference, the last by the name, and the roster order is reversed
C6_Witness ==
    /\ last.op = "get_table_data"
    /\ Len(teams) = 3
    /\ \A i \in 1..3 : teams[i].points = 3
    /\ teams[1].name = "Cork" /\ teams[2].name = "Ajax"
    /\ teams[1].goals_for = 1 /\ teams[2].goals_for = 1
    /\ goal_difference(teams[3]) = 2
    /\ last.rankings = <<teams[3], teams[2], teams[1]>>

(***************************************************************************)
(* Dates: datetime.strptime(start_date, "%Y-%m-%d"), + timedelta(weeks=k)  *)
(* and strftime("%Y-%m-%d").  A date string is <<year, month, day>>; the   *)
(* datetime is its proleptic Gregorian ordinal, as in Python.              *)
(***************************************************************************)
IsLeap(y) == y % 4 = 0 /\ (y % 100 # 0 \/ y % 400 = 0)

DaysInMonth(y, m) ==
    IF m = 2 THEN (IF IsLeap(y) THEN 29 ELSE 28)
    ELSE IF m \in {4, 6, 9, 11} THEN 30 ELSE 31

RECURSIVE DaysBeforeMonth(_, _)
DaysBeforeMonth(y, m) ==
    IF m = 1 THEN 0 ELSE DaysBeforeMonth(y, m - 1) + DaysInMonth(y, m - 1)

DaysBeforeYear(y) ==
    (y - 1) * 365 + (y - 1) \div 4 - (y - 1) \div 100 + (y - 1) \div 400

\* strptime: the ordinal of the date written y-m-d
ToOrdinal(d) == DaysBeforeYear(d[1]) + DaysBeforeMonth(d[1], d[2]) + d[3]

\* the years the dates of the model fall in
ModelYears == 2023..2025

\* strftime: the date whose ordinal is n
FromOrdinal(n) ==
    LET y == CHOOSE yy \in ModelYears :
                 DaysBeforeYear(yy) < n /\ n <= DaysBeforeYear(yy + 1)
        m == CHOOSE mm \in 1..12 :
                 /\ DaysBeforeYear(y) + DaysBeforeMonth(y, mm) < n
                 /\ n <= DaysBeforeYear(y) + DaysBeforeMonth(y, mm) + DaysInMonth(y, mm)
    IN  <<y, m, n - DaysBeforeYear(y) - DaysBeforeMonth(y, m)>>

\* (base_date + timedelta(weeks=week_num - 1)).strftime("%Y-%m-%d")
WeekDate(base_ordinal, week_num) == FromOrdinal(base_ordinal + 7 * (week_num - 1))

(***************************************************************************)
(* balance_home_away_rotation.  The two streak dicts are functions on the  *)
(* ids of the rounds; the code enters an id with 0 before it first reads   *)
(* it, so an id not yet entered is an id at 0.                             *)
(***************************************************************************)
StreakLimit == 2

RoundsIds(rounds) ==
    UNION {UNION {PairIds(rounds[r][k]) : k \in DOMAIN rounds[r]} : r \in DOMAIN rounds}

\* a loop body whose swap assigns the home side only
BalanceOneHalfSwap(pair, round_idx, st) ==
    LET home_id == pair[1].team_id
        away_id == pair[2].team_id
        should_swap ==
            \/ st.home[home_id] >= StreakLimit /\ st.away[away_id] >= StreakLimit
            \/ st.home[home_id] >= StreakLimit /\ st.home[away_id] = 0
        swap == should_swap /\ round_idx > 0
        h == IF swap THEN pair[2] ELSE pair[1]
        a == pair[2]
        home1 == [st.home EXCEPT ![h.team_id] = @ + 1]
        away1 == [st.away EXCEPT ![h.team_id] = 0]
        away2 == [away1 EXCEPT ![a.team_id] = @ + 1]
        home2 == [home1 EXCEPT ![a.team_id] = 0]
    IN  [pair |-> <<h, a>>, st |-> [home |-> home2, away |-> away2]]

\* the body of the inner loop for one (home, away): the pair as kept or
\* swapped, and the streaks after it
BalanceOne(pair, round_idx, st) ==
    LET home_id == pair[1].team_id
        away_id == pair[2].team_id
        should_swap ==
            \/ st.home[home_id] >= StreakLimit /\ st.away[away_id] >= StreakLimit
            \/ st.home[home_id] >= StreakLimit /\ st.home[away_id] = 0
        swap == should_swap /\ round_idx > 0
        h == IF swap THEN pair[2] ELSE pair[1]
        a == IF swap THEN pair[1] ELSE pair[2]
        home1 == [st.home EXCEPT ![h.team_id] = @ + 1]
        away1 == [st.away EXCEPT ![h.team_id] = 0]
        away2 == [away1 EXCEPT ![a.team_id] = @ + 1]
        home2 == [home1 EXCEPT ![a.team_id] = 0]
    IN  [pair |-> <<h, a>>, st |-> [home |-> home2, away |-> away2]]

\* one round from its k-th match on: the balanced matches and the streaks
RECURSIVE BalanceRound(_, _, _, _)
BalanceRound(round_matches, k, round_idx, st) ==
    IF k > Len(round_matches) THEN [matches |-> <<>>, st |-> st]
    ELSE LET one == BalanceOne(round_matches[k], round_idx, st)
             rest == BalanceRound(round_matches, k + 1, round_idx, one.st)
         IN  [matches |-> <<one.pair>> \o rest.matches, st |-> rest.st]

\* the rounds from Python's index round_idx on
RECURSIVE BalanceFrom(_, _, _)
BalanceFrom(rounds, round_idx, st) ==
    IF round_idx >= Len(rounds) THEN <<>>
    ELSE LET r == BalanceRound(rounds[round_idx + 1], 1, round_idx, st)
         IN  <<r.matches>> \o BalanceFrom(rounds, round_idx + 1, r.st)

balance_home_away_rotation(rounds) ==
    IF rounds = <<>> THEN rounds
    ELSE BalanceFrom(rounds, 0,
            [home |-> [id \in RoundsIds(rounds) |-> 0],
             away |-> [id \in RoundsIds(rounds) |-> 0]])

(***************************************************************************)
(* FixtureScheduler.generate_fixtures, lines 75-99: one Match per pair of  *)
(* the balanced rounds, round r being week r.                              *)
(***************************************************************************)
WeekMatches(round_matches, week_num, base_ordinal) ==
    [k \in 1..Len(round_matches) |->
        Match(<<week_num, round_matches[k][1].team_id, round_matches[k][2].team_id>>,
              round_matches[k][1].team_id, round_matches[k][2].team_id,
              round_matches[k][1].name, round_matches[k][2].name,
              week_num, Some(WeekDate(base_ordinal, week_num)))]

RECURSIVE OrganizeWeeks(_, _, _)
OrganizeWeeks(balanced_rounds, week_num, base_ordinal) ==
    IF week_num > Len(balanced_rounds) THEN <<>>
    ELSE WeekMatches(balanced_rounds[week_num], week_num, base_ordinal)
         \o OrganizeWeeks(balanced_rounds, week_num + 1, base_ordinal)

\* the match list generate_fixtures builds for the roster ts
NewFixtures(ts, base_ordinal) ==
    OrganizeWeeks(balance_home_away_rotation(generate_round_robin_pairs(ts)),
                  1, base_ordinal)

(***************************************************************************)
(* Team.validate and the League's roster operations.  Each operation is an *)
(* operator from the league's fields and the arguments to the returned     *)
(* (success, message) and the fields after the call.  No string of the     *)
(* model has leading or trailing white space, so len(s) is len(s.strip()). *)
(***************************************************************************)
MinNameLen == 2
MaxNameLen == 50
MinStadiumLen == 2
MaxStadiumLen == 100

validate(t) ==
    IF t.name = "" \/ StripLen(t.name) < MinNameLen
    THEN <<FALSE, "Team name must be at least 2 characters">>
    ELSE IF StripLen(t.name) > MaxNameLen
    THEN <<FALSE, "Team name must not exceed 50 characters">>
    ELSE IF t.stadium = "" \/ StripLen(t.stadium) < MinStadiumLen
    THEN <<FALSE, "Stadium name must be at least 2 characters">>
    ELSE IF StripLen(t.stadium) > MaxStadiumLen
    THEN <<FALSE, "Stadium name must not exceed 100 characters">>
    ELSE <<TRUE, "">>

\* get_team_by_id as the index of the first team with the id, 0 for None
TeamIndex(ts, team_id) ==
    IF \E i \in DOMAIN ts : ts[i].team_id = team_id
    THEN CHOOSE i \in DOMAIN ts :
             /\ ts[i].team_id = team_id
             /\ \A j \in 1..(i - 1) : ts[j].team_id # team_id
    ELSE 0

\* an add_team that compares the names as they are written
add_team_case_sensitive(ts, fg, team) ==
    IF \E i \in DOMAIN ts : ts[i].team_id = team.team_id
    THEN [ok |-> FALSE, msg |-> "already exists in the league", teams |-> ts]
    ELSE IF \E i \in DOMAIN ts : ts[i].name = team.name
    THEN [ok |-> FALSE, msg |-> "A team with name already exists", teams |-> ts]
    ELSE IF ~validate(team)[1]
    THEN [ok |-> FALSE, msg |-> validate(team)[2], teams |-> ts]
    ELSE [ok |-> TRUE, msg |-> "added successfully", teams |-> Append(ts, team)]

\* League.add_team; fg, the fixtures_generated flag, is not read
add_team(ts, fg, team) ==
    IF \E i \in DOMAIN ts : ts[i].team_id = team.team_id
    THEN [ok |-> FALSE, msg |-> "already exists in the league", teams |-> ts]
    ELSE IF \E i \in DOMAIN ts : Lower(ts[i].name) = Lower(team.name)
    THEN [ok |-> FALSE, msg |-> "A team with name already exists", teams |-> ts]
    ELSE IF ~validate(team)[1]
    THEN [ok |-> FALSE, msg |-> validate(team)[2], teams |-> ts]
    ELSE [ok |-> TRUE, msg |-> "added successfully", teams |-> Append(ts, team)]

\* a remove_team that does not read the fixtures_generated flag
remove_team_unfrozen(ts, fg, team_id) ==
    IF TeamIndex(ts, team_id) = 0
    THEN [ok |-> FALSE, msg |-> "not found", teams |-> ts]
    ELSE [ok |-> TRUE, msg |-> "Team removed successfully",
          teams |-> SelectSeq(ts, LAMBDA t : t.team_id # team_id)]

\* League.remove_team
remove_team(ts, fg, team_id) ==
    IF fg
    THEN [ok |-> FALSE, msg |-> "Cannot remove teams after fixtures are generated",
          teams |-> ts]
    ELSE IF TeamIndex(ts, team_id) = 0
    THEN [ok |-> FALSE, msg |-> "not found", teams |-> ts]
    ELSE [ok |-> TRUE, msg |-> "Team removed successfully",
          teams |-> SelectSeq(ts, LAMBDA t : t.team_id # team_id)]

\* League.edit_team; an empty name or stadium is one not given.  The team
\* is changed in place before it is validated again.
edit_team(ts, fg, team_id, name, stadium) ==
    IF fg
    THEN [ok |-> FALSE, msg |-> "Cannot edit teams after fixtures are generated",
          teams |-> ts]
    ELSE IF TeamIndex(ts, team_id) = 0
    THEN [ok |-> FALSE, msg |-> "not found", teams |-> ts]
    ELSE LET i == TeamIndex(ts, team_id)
             t1 == IF name # "" THEN [ts[i] EXCEPT !.name = name] ELSE ts[i]
             t2 == IF stadium # "" THEN [t1 EXCEPT !.stadium = stadium] ELSE t1
             edited == [ts EXCEPT ![i] = t2]
         IN  IF ~validate(t2)[1]
             THEN [ok |-> FALSE, msg |-> validate(t2)[2], teams |-> edited]
             ELSE [ok |-> TRUE, msg |-> "Team updated successfully", teams |-> edited]

(***************************************************************************)
(* FixtureScheduler: generate_fixtures, reschedule_match.                  *)
(***************************************************************************)
\* whether strptime(s, "%Y-%m-%d") accepts the string that <<y, m, d>> stands
\* for; it raises ValueError on any other string
IsDate(d) == d[2] \in 1..12 /\ d[3] \in 1..DaysInMonth(d[1], d[2])

\* a generate_fixtures that clears the fixtures before it looks at the roster
generate_fixtures_clear_first(ts, ms, fg, start_date, now) ==
    IF Len(ts) < 2
    THEN [ok |-> FALSE, raised |-> FALSE, msg |-> "League must have at least 2 teams",
          matches |-> <<>>, fixtures_generated |-> fg]
    ELSE IF Len(ts) % 2 # 0
    THEN [ok |-> FALSE, raised |-> FALSE, msg |-> "League must have even number of teams",
          matches |-> <<>>, fixtures_generated |-> fg]
    ELSE IF start_date # None /\ ~IsDate(start_date[1])
    THEN [ok |-> FALSE, raised |-> TRUE, msg |-> "ValueError",
          matches |-> <<>>, fixtures_generated |-> fg]
    ELSE [ok |-> TRUE, raised |-> FALSE, msg |-> "Generated fixtures",
          matches |-> NewFixtures(ts, ToOrdinal(IF start_date # None
                                                THEN start_date[1] ELSE now)),
          fixtures_generated |-> TRUE]

\* generate_fixtures(start_date), start_date None when omitted, now what
\* datetime.now() returns.  The league's matches are cleared (line 67)
\* before start_date is parsed (line 77): when strptime raises, the call
\* returns nothing (raised) and the match list is left empty.
generate_fixtures(ts, ms, fg, start_date, now) ==
    IF Len(ts) < 2
    THEN [ok |-> FALSE, raised |-> FALSE, msg |-> "League must have at least 2 teams",
          matches |-> ms, fixtures_generated |-> fg]
    ELSE IF Len(ts) % 2 # 0
    THEN [ok |-> FALSE, raised |-> FALSE, msg |-> "League must have even number of teams",
          matches |-> ms, fixtures_generated |-> fg]
    ELSE IF start_date # None /\ ~IsDate(start_date[1])
    THEN [ok |-> FALSE, raised |-> TRUE, msg |-> "ValueError",
          matches |-> <<>>, fixtures_generated |-> fg]
    ELSE [ok |-> TRUE, raised |-> FALSE, msg |-> "Generated fixtures",
          matches |-> NewFixtures(ts, ToOrdinal(IF start_date # None
                                                THEN start_date[1] ELSE now)),
          fixtures_generated |-> TRUE]

\* next(m for m in matches if m.match_id == match_id), as an index, 0 for None
MatchIndex(ms, match_id) ==
    IF \E i \in DOMAIN ms : ms[i].match_id = match_id
    THEN CHOOSE i \in DOMAIN ms :
             /\ ms[i].match_id = match_id
             /\ \A j \in 1..(i - 1) : ms[j].match_id # match_id
    ELSE 0

\* a clash check that finds no clash
check_week_clash_never(ms, team1_id, team2_id, week, exclude_match_id) == FALSE

\* a clash check that only looks at the first team
check_week_clash_home_only(ms, team1_id, team2_id, week, exclude_match_id) ==
    \E i \in DOMAIN ms :
        /\ ms[i].match_id # exclude_match_id
        /\ ms[i].week = week
        /\ team1_id \in {ms[i].home_team_id, ms[i].away_team_id}

\* _check_week_clash: whether some match other than the excluded one, in the
\* given week, has team1 or team2
check_week_clash(ms, team1_id, team2_id, week, exclude_match_id) ==
    \E i \in DOMAIN ms :
        /\ ms[i].match_id # exclude_match_id
        /\ ms[i].week = week
        /\ \/ team1_id \in {ms[i].home_team_id, ms[i].away_team_id}
           \/ team2_id \in {ms[i].home_team_id, ms[i].away_team_id}

\* a reschedule_match that does not look at the played flag
reschedule_match_played(ms, match_id, new_week) ==
    LET i == MatchIndex(ms, match_id)
    IN  IF i = 0
        THEN [ok |-> FALSE, msg |-> "not found", matches |-> ms]
        ELSE IF check_week_clash(ms, ms[i].home_team_id, ms[i].away_team_id,
                                 new_week, match_id)
        THEN [ok |-> FALSE, msg |-> "Clash detected", matches |-> ms]
        ELSE [ok |-> TRUE, msg |-> "Match rescheduled",
              matches |-> [ms EXCEPT ![i].week = new_week]]

reschedule_match(ms, match_id, new_week) ==
    LET i == MatchIndex(ms, match_id)
    IN  IF i = 0
        THEN [ok |-> FALSE, msg |-> "not found", matches |-> ms]
        ELSE IF ms[i].played
        THEN [ok |-> FALSE, msg |-> "Cannot reschedule a match that has been played",
              matches |-> ms]
        ELSE IF check_week_clash(ms, ms[i].home_team_id, ms[i].away_team_id,
                                 new_week, match_id)
        THEN [ok |-> FALSE, msg |-> "Clash detected", matches |-> ms]
        ELSE [ok |-> TRUE, msg |-> "Match rescheduled",
              matches |-> [ms EXCEPT ![i].week = new_week]]

(***************************************************************************)
(* Match.record_result, LeagueTable.update_from_match and                  *)
(* ResultsManager.record_result.                                           *)
(***************************************************************************)
WinPoints == 3
DrawPoints == 1

\* Match.record_result for scores that are not negative
match_record_result(m, home_score, away_score) ==
    [m EXCEPT !.home_score = Some(home_score), !.away_score = Some(away_score),
              !.played = TRUE]

\* what a match adds to the team at index i when it played at home (side 1)
\* or away (side 2), scored gf and conceded ga
Credit(ts, i, gf, ga) ==
    [ts EXCEPT ![i].played = @ + 1,
               ![i].goals_for = @ + gf,
               ![i].goals_against = @ + ga,
               ![i].won = IF gf > ga THEN @ + 1 ELSE @,
               ![i].lost = IF gf < ga THEN @ + 1 ELSE @,
               ![i].drawn = IF gf = ga THEN @ + 1 ELSE @,
               ![i].points = IF gf > ga THEN @ + WinPoints
                             ELSE IF gf = ga THEN @ + DrawPoints ELSE @]

\* an update that gives the away team the home team's goals
update_from_match_same_goals(ts, m, hi, ai) ==
    IF ~is_played(m) THEN ts
    ELSE Credit(Credit(ts, hi, m.home_score[1], m.away_score[1]),
                ai, m.home_score[1], m.away_score[1])

\* update_from_match(match, home_team, away_team), the two teams given as
\* their places hi and ai in the roster; every statement adds to one field
\* of one team, so the home team's and the away team's may be taken in turn
update_from_match(ts, m, hi, ai) ==
    IF ~is_played(m) THEN ts
    ELSE Credit(Credit(ts, hi, m.home_score[1], m.away_score[1]),
                ai, m.away_score[1], m.home_score[1])

\* ResultsManager.table is set when the manager is given a league that has
\* teams (results_manager.py 42-43, 48-49); the application gives it the
\* league again after every change of the roster (cli.py 759-768)
TableInitialised(ts) == ts # <<>>

\* a record_result that records over a match already played
record_result_again(ts, ms, match_identifier, home_score, away_score) ==
    LET i == MatchIndex(ms, match_identifier)
    IN  IF ~TableInitialised(ts) \/ i = 0 \/ home_score < 0 \/ away_score < 0
        THEN [ok |-> FALSE, msg |-> "rejected", matches |-> ms, teams |-> ts]
        ELSE LET recorded == [ms EXCEPT ![i] =
                                 match_record_result(ms[i], home_score, away_score)]
             IN  [ok |-> TRUE, msg |-> "Result recorded", matches |-> recorded,
                  teams |-> update_from_match(ts, recorded[i],
                                TeamIndex(ts, ms[i].home_team_id),
                                TeamIndex(ts, ms[i].away_team_id))]

\* ResultsManager.record_result
record_result(ts, ms, match_identifier, home_score, away_score) ==
    LET i == MatchIndex(ms, match_identifier)
    IN  IF ~TableInitialised(ts)
        THEN [ok |-> FALSE, msg |-> "League table not initialized",
              matches |-> ms, teams |-> ts]
        ELSE IF i = 0
        THEN [ok |-> FALSE, msg |-> "not found", matches |-> ms, teams |-> ts]
        ELSE IF ms[i].played
        THEN [ok |-> FALSE, msg |-> "Match already played",
              matches |-> ms, teams |-> ts]
        ELSE IF home_score < 0 \/ away_score < 0
        THEN [ok |-> FALSE, msg |-> "Scores cannot be negative",
              matches |-> ms, teams |-> ts]
        ELSE LET recorded == [ms EXCEPT ![i] =
                                 match_record_result(ms[i], home_score, away_score)]
                 hi == TeamIndex(ts, ms[i].home_team_id)
                 ai == TeamIndex(ts, ms[i].away_team_id)
             IN  IF hi = 0 \/ ai = 0
                 THEN [ok |-> FALSE, msg |-> "Team not found in league",
                       matches |-> recorded, teams |-> ts]
                 ELSE [ok |-> TRUE, msg |-> "Result recorded",
                       matches |-> recorded,
                       teams |-> update_from_match(ts, recorded[i], hi, ai)]

(***************************************************************************)
(* The calls as actions.  Every action is one call on a League with a      *)
(* FixtureScheduler and a ResultsManager on it; last holds the call, its   *)
(* arguments and the (success, message) it returned.  A call whose effect  *)
(* would pass a bound of the model is not taken.                           *)
(***************************************************************************)
\* results recorded so far, as the teams' statistics count them
Recorded(ts) ==
    LET RECURSIVE Sum(_)
        Sum(i) == IF i = 0 THEN 0 ELSE ts[i].played + Sum(i - 1)
    IN  Sum(Len(ts)) \div 2

\* matches that are not in the week they were generated for
Moved(ms) == Cardinality({i \in DOMAIN ms : ms[i].week # ms[i].match_id[1]})

AddTeam(name, stadium, team_id, max_teams) ==
    LET r == add_team(teams, fixtures_generated, Team(name, stadium, team_id))
    IN  /\ Len(r.teams) <= max_teams
        /\ teams' = r.teams
        /\ last' = [op |-> "add_team", ok |-> r.ok, msg |-> r.msg,
                    team |-> Team(name, stadium, team_id)]
        /\ UNCHANGED <<matches, fixtures_generated, scheduler>>

RemoveTeam(team_id) ==
    LET r == remove_team(teams, fixtures_generated, team_id)
    IN  /\ teams' = r.teams
        /\ last' = [op |-> "remove_team", ok |-> r.ok, msg |-> r.msg,
                    team_id |-> team_id]
        /\ UNCHANGED <<matches, fixtures_generated, scheduler>>

EditTeam(team_id, name, stadium) ==
    LET r == edit_team(teams, fixtures_generated, team_id, name, stadium)
    IN  /\ teams' = r.teams
        /\ last' = [op |-> "edit_team", ok |-> r.ok, msg |-> r.msg,
                    team_id |-> team_id, name |-> name, stadium |-> stadium]
        /\ UNCHANGED <<matches, fixtures_generated, scheduler>>

\* start_date is None when omitted; now is what datetime.now() returns
GenerateFixtures(start_date, now) ==
    LET r == generate_fixtures(teams, matches, fixtures_generated, start_date, now)
    IN  /\ matches' = r.matches
        /\ fixtures_generated' = r.fixtures_generated
        /\ last' = [op |-> "generate_fixtures", ok |-> r.ok, raised |-> r.raised,
                    msg |-> r.msg,
                    start_date |-> start_date, now |-> now]
        /\ UNCHANGED <<teams, scheduler>>

RescheduleMatch(match_id, new_week, max_moved) ==
    LET r == reschedule_match(matches, match_id, new_week)
    IN  /\ Moved(r.matches) <= max_moved
        /\ matches' = r.matches
        /\ last' = [op |-> "reschedule_match", ok |-> r.ok, msg |-> r.msg,
                    match_id |-> match_id, new_week |-> new_week]
        /\ UNCHANGED <<teams, fixtures_generated, scheduler>>

RecordResult(match_id, home_score, away_score, max_played) ==
    LET r == record_result(teams, matches, match_id, home_score, away_score)
    IN  /\ Recorded(r.teams) <= max_played
        /\ matches' = r.matches
        /\ teams' = r.teams
        /\ last' = [op |-> "record_result", ok |-> r.ok, msg |-> r.msg,
                    match_id |-> match_id, home_score |-> home_score,
                    away_score |-> away_score]
        /\ UNCHANGED <<fixtures_generated, scheduler>>

(***************************************************************************)
(* The arguments the calls are given.                                      *)
(***************************************************************************)
\* start_date arguments, None for an omitted one, and what now() may be
StartDates == {None, Some(<<2024, 2, 20>>)}
NowDates == {<<2023, 12, 25>>}

ReschedWeeks == {2, 4}

\* (home_score, away_score) arguments
ScorePairs == {<<1, 0>>, <<1, 1>>, <<2, 0 - 1>>}

NoMatchId == <<9, "none", "none">>

MatchIds(ms) == {ms[i].match_id : i \in DOMAIN ms} \cup {NoMatchId}

(***************************************************************************)
(* The league's life.  The league starts empty, or with a roster that      *)
(* add_team built.                                                         *)
(***************************************************************************)
MaxTeams == 4
MaxPlayed == 1
MaxMoved == 1

SeedRosters ==
    {<<>>,
     <<Team("AJAX", "Park", ""), Team("Fahy", "Park", "")>>,
     <<Team("Ajax", "Park", ""), Team("Cork", "Park", ""), Team("Derby", "Park", "")>>}

AddNames == {"Bye", "Ajax"}

Init ==
    /\ teams \in SeedRosters
    /\ matches = <<>>
    /\ fixtures_generated = FALSE
    /\ last = [op |-> "init"]
    /\ scheduler = NewScheduler

Next ==
    \/ \E name \in AddNames : AddTeam(name, "Park", "", MaxTeams)
    \/ \E start_date \in StartDates, now \in NowDates :
          GenerateFixtures(start_date, now)
    \/ \E match_id \in MatchIds(matches), new_week \in ReschedWeeks :
          RescheduleMatch(match_id, new_week, MaxMoved)
    \/ \E match_id \in MatchIds(matches), sc \in ScorePairs :
          RecordResult(match_id, sc[1], sc[2], MaxPlayed)

Spec == Init /\ [][Next]_vars

(***************************************************************************)
(* The roster's life: teams are added, removed and edited, and fixtures    *)
(* are generated, in any order.                                            *)
(***************************************************************************)
\* (name, stadium) arguments of edit_team, "" for one not given
EditArgs == {<<"Zed", "">>, <<"X", "Arena">>}

\* (name, team_id) arguments of add_team, "" for an id not given
RosterAdds == {<<"Bye", "">>, <<"Ajax", "">>, <<"ZED", "">>, <<"X", "">>,
               <<"Gort", "ajax">>}

RemoveIds == {"ajax", "bye", "none"}

EditIds == {"ajax", "none"}

NextRoster ==
    \/ \E a \in RosterAdds : AddTeam(a[1], "Park", a[2], MaxTeams)
    \/ \E team_id \in RemoveIds : RemoveTeam(team_id)
    \/ \E team_id \in EditIds, a \in EditArgs : EditTeam(team_id, a[1], a[2])
    \/ \E start_date \in StartDates, now \in NowDates :
          GenerateFixtures(start_date, now)

SpecRoster == Init /\ [][NextRoster]_vars

(***************************************************************************)
(* A season: four teams with their fixtures generated, and results         *)
(* recorded, or matches rescheduled, in any order.                         *)
(***************************************************************************)
MaxResults == 2
MaxResched == 2

SeasonRoster ==
    <<Team("Ajax", "Park", ""), Team("Cork", "Park", ""),
      Team("Derby", "Park", ""), Team("Fahy", "Park", "")>>

SeasonStart == <<2024, 2, 20>>

SeasonFixtures == NewFixtures(SeasonRoster, ToOrdinal(SeasonStart))

SeasonWeeks == {0, 1, 2, 4}

InitSeason ==
    /\ teams = SeasonRoster
    /\ matches = SeasonFixtures
    /\ fixtures_generated = TRUE
    /\ last = [op |-> "init"]
    /\ scheduler = NewScheduler

NextResults ==
    \E match_id \in MatchIds(matches), sc \in ScorePairs \cup {<<0, 2>>} :
        RecordResult(match_id, sc[1], sc[2], MaxResults)

SpecResults == InitSeason /\ [][NextResults]_vars

\* the season with the result of its first match recorded
SeasonUnderWay ==
    record_result(SeasonRoster, SeasonFixtures, SeasonFixtures[1].match_id, 1, 0)

InitResched ==
    /\ \/ teams = SeasonRoster /\ matches = SeasonFixtures
       \/ teams = SeasonUnderWay.teams /\ matches = SeasonUnderWay.matches
    /\ fixtures_generated = TRUE
    /\ last = [op |-> "init"]
    /\ scheduler = NewScheduler

NextResched ==
    \E match_id \in MatchIds(matches), new_week \in SeasonWeeks :
        RescheduleMatch(match_id, new_week, MaxResched)

SpecResched == InitResched /\ [][NextResched]_vars

(***************************************************************************)
(* generate_fixtures.                                                      *)
(***************************************************************************)
\* the matches of ms that team_id plays in
MatchesOf(ms, team_id) ==
    {i \in DOMAIN ms : ms[i].home_team_id = team_id \/ ms[i].away_team_id = team_id}

\* the matches of ms between the two teams, whichever is at home
MatchesBetween(ms, id1, id2) ==
    {i \in DOMAIN ms : {ms[i].home_team_id, ms[i].away_team_id} = {id1, id2}}

\* the date the last generate_fixtures call counted the weeks from
BaseDate == IF last.start_date # None THEN last.start_date[1] ELSE last.now

IsFullSchedule(ts, ms, base_date) ==
    LET N == Len(ts) IN
    /\ Len(ms) = (N * (N - 1)) \div 2
    /\ {ms[i].week : i \in DOMAIN ms} = 1..(N - 1)
    /\ \A w \in 1..(N - 1) : Cardinality({i \in DOMAIN ms : ms[i].week = w}) = N \div 2
    /\ \A k \in DOMAIN ts, w \in 1..(N - 1) :
          Cardinality({i \in MatchesOf(ms, ts[k].team_id) : ms[i].week = w}) = 1
    /\ \A k1, k2 \in DOMAIN ts :
          k1 < k2 => Cardinality(MatchesBetween(ms, ts[k1].team_id, ts[k2].team_id)) = 1
    /\ \A i \in DOMAIN ms :
          /\ ~ms[i].played
          /\ ms[i].home_score = None /\ ms[i].away_score = None
          /\ ms[i].scheduled_date
                = Some(FromOrdinal(ToOrdinal(base_date) + 7 * (ms[i].week - 1)))

\* C2: after a successful generate_fixtures on a league of an even number
\* N >= 2 of teams, the match list is N(N-1)/2 matches, in weeks 1..N-1 of
\* N/2 matches each, every team with one match in every week, every two
\* teams of the roster meeting once, every match unplayed with no scores and
\* dated start_date + 7*(week-1) days, and fixtures_generated is true.
C2_GenerateSchedule ==
    (last.op = "generate_fixtures" /\ last.ok /\ Len(teams) >= 2 /\ Len(teams) % 2 = 0)
        => (fixtures_generated /\ IsFullSchedule(teams, matches, BaseDate))

\* C3: generate_fixtures on a league of fewer than 2 teams, or of an odd
\* number of teams, returns failure and leaves the match list, every match
\* and the fixtures_generated flag as they were before the call.
C3_GenerateRejected ==
    [][(last'.op = "generate_fixtures" /\ (Len(teams) < 2 \/ Len(teams) % 2 # 0))
          => /\ ~last'.ok
             /\ matches' = matches
             /\ fixtures_generated' = fixtures_generated]_vars

\* a league of three teams has refused to generate, and still holds the
\* fixtures, one of them played or moved, that it generated as two teams
C3_Witness ==
    /\ last.op = "generate_fixtures" /\ ~last.ok
    /\ Len(teams) = 3
    /\ fixtures_generated
    /\ \E i \in DOMAIN matches : matches[i].played \/ matches[i].week # matches[i].match_id[1]

(***************************************************************************)
(* The roster once fixtures are generated.                                 *)
(***************************************************************************)
RosterOf(ts) == [k \in DOMAIN ts |-> <<ts[k].team_id, ts[k].name, ts[k].stadium>>]

\* C7: when fixtures_generated is true, add_team, remove_team and edit_team
\* each return failure and leave the team list, and every team's name and
\* stadium, unchanged.
C7_RosterFrozen ==
    [][(fixtures_generated /\ last'.op \in {"add_team", "remove_team", "edit_team"})
          => (~last'.ok /\ RosterOf(teams') = RosterOf(teams))]_vars

(***************************************************************************)
(* record_result.                                                          *)
(***************************************************************************)
\* team t after one more match in which it scored gf and conceded ga
AfterMatch(t, gf, ga) ==
    [name |-> t.name, stadium |-> t.stadium, team_id |-> t.team_id,
     played |-> t.played + 1,
     won |-> t.won + (IF gf > ga THEN 1 ELSE 0),
     drawn |-> t.drawn + (IF gf = ga THEN 1 ELSE 0),
     lost |-> t.lost + (IF gf < ga THEN 1 ELSE 0),
     goals_for |-> t.goals_for + gf,
     goals_against |-> t.goals_against + ga,
     points |-> t.points + (IF gf > ga THEN 3 ELSE IF gf = ga THEN 1 ELSE 0)]

\* C4: a successful record_result(match, h, a) on an unplayed match gives
\* the match's home team one more match played with h goals for and a
\* against, the away team one more with a for and h against, the winner a
\* win and 3 points and the loser a loss, or both a draw and 1 point, and
\* changes no other team.
C4_RecordUpdatesTwoTeams ==
    [][(last'.op = "record_result" /\ last'.ok)
          => LET i == MatchIndex(matches, last'.match_id)
                 h == last'.home_score
                 a == last'.away_score
             IN  /\ i # 0
                 /\ ~matches[i].played
                 /\ DOMAIN teams' = DOMAIN teams
                 /\ \A k \in DOMAIN teams :
                       teams'[k] =
                          IF teams[k].team_id = matches[i].home_team_id
                          THEN AfterMatch(teams[k], h, a)
                          ELSE IF teams[k].team_id = matches[i].away_team_id
                          THEN AfterMatch(teams[k], a, h)
                          ELSE teams[k]]_vars

\* a result was recorded for a team that had a result already, while
\* another team has none yet
C4_Witness ==
    /\ last.op = "record_result" /\ last.ok
    /\ last.home_score # last.away_score
    /\ \E k \in DOMAIN teams : teams[k].played = 2
    /\ \E k \in DOMAIN teams : teams[k].played = 0

TeamBusyInWeek(ms, i, w) ==
    \E j \in DOMAIN ms :
        /\ ms[j].match_id # ms[i].match_id
        /\ ms[j].week = w
        /\ {ms[j].home_team_id, ms[j].away_team_id}
              \cap {ms[i].home_team_id, ms[i].away_team_id} # {}

\* C8: reschedule_match(match_id, new_week) on an unplayed match fails with
\* a clash message and leaves the match's week unchanged when another match
\* in new_week has the match's home team or its away team, and otherwise
\* succeeds and sets the match's week to new_week.
C8_RescheduleClash ==
    [][(/\ last'.op = "reschedule_match"
        /\ MatchIndex(matches, last'.match_id) # 0
        /\ ~matches[MatchIndex(matches, last'.match_id)].played)
          => LET i == MatchIndex(matches, last'.match_id)
             IN  IF TeamBusyInWeek(matches, i, last'.new_week)
                 THEN /\ ~last'.ok
                      /\ last'.msg = "Clash detected"
                      /\ matches'[i].week = matches[i].week
                 ELSE /\ last'.ok
                      /\ matches'[i].week = last'.new_week]_vars

\* a match was refused a week that only its away team is busy in, and that
\* through a match moved there earlier
C8_Witness ==
    /\ last.op = "reschedule_match" /\ ~last.ok
    /\ last.msg = "Clash detected"
    /\ LET i == MatchIndex(matches, last.match_id)
       IN  /\ i # 0
           /\ \E j \in DOMAIN matches :
                 /\ j # i
                 /\ matches[j].week = last.new_week
                 /\ matches[j].match_id[1] # last.new_week
                 /\ matches[i].away_team_id
                       \in {matches[j].home_team_id, matches[j].away_team_id}
           /\ \A j \in DOMAIN matches :
                 (j # i /\ matches[j].week = last.new_week)
                    => matches[i].home_team_id
                          \notin {matches[j].home_team_id, matches[j].away_team_id}

(***************************************************************************)
(* FixtureScheduler.auto_regenerate_fixtures.                              *)
(***************************************************************************)
\* League.validate_for_scheduling
validate_for_scheduling(ts) ==
    IF Len(ts) < 2
    THEN <<FALSE, "League must have at least 2 teams to generate fixtures">>
    ELSE IF Len(ts) % 2 # 0
    THEN <<FALSE, "League must have an even number of teams for round-robin scheduling">>
    ELSE IF \E k \in DOMAIN ts : ~validate(ts[k])[1]
    THEN <<FALSE, "Team validation failed">>
    ELSE <<TRUE, "League is valid for scheduling">>

\* results_backup: the pairs of the played matches of ms
BackupPairs(ms) == {SortedPair(ms[i]) : i \in {j \in DOMAIN ms : is_played(ms[j])}}

\* results_backup[pair] = (home_score, away_score, home_team_id) of the last
\* played match of the pair, a later match overwriting an earlier one
BackupOf(ms, pair) ==
    LET i == CHOOSE j \in DOMAIN ms :
                 /\ is_played(ms[j]) /\ SortedPair(ms[j]) = pair
                 /\ \A k \in DOMAIN ms :
                       (is_played(ms[k]) /\ SortedPair(ms[k]) = pair) => k <= j
    IN  <<ms[i].home_score[1], ms[i].away_score[1], ms[i].home_team_id>>

\* the restore loop over the regenerated matches
RestoreResults(new_ms, old_ms) ==
    [j \in DOMAIN new_ms |->
        IF SortedPair(new_ms[j]) \in BackupPairs(old_ms)
        THEN LET b == BackupOf(old_ms, SortedPair(new_ms[j]))
             IN  IF new_ms[j].home_team_id = b[3]
                 THEN match_record_result(new_ms[j], b[1], b[2])
                 ELSE match_record_result(new_ms[j], b[2], b[1])
        ELSE new_ms[j]]

\* a restore that puts the scores back in their old slots
RestoreResultsBySlot(new_ms, old_ms) ==
    [j \in DOMAIN new_ms |->
        IF SortedPair(new_ms[j]) \in BackupPairs(old_ms)
        THEN LET b == BackupOf(old_ms, SortedPair(new_ms[j]))
             IN  match_record_result(new_ms[j], b[1], b[2])
        ELSE new_ms[j]]

auto_regenerate_fixtures_by_slot(ts, ms, fg, start_date, now) ==
    IF ~validate_for_scheduling(ts)[1]
    THEN [ok |-> FALSE, raised |-> FALSE, msg |-> "Cannot regenerate fixtures",
          matches |-> ms, fixtures_generated |-> fg]
    ELSE LET r == generate_fixtures(ts, ms, fg, start_date, now)
         IN  IF r.ok /\ BackupPairs(ms) # {}
             THEN [r EXCEPT !.matches = RestoreResultsBySlot(r.matches, ms)]
             ELSE r

auto_regenerate_fixtures(ts, ms, fg, start_date, now) ==
    IF ~validate_for_scheduling(ts)[1]
    THEN [ok |-> FALSE, raised |-> FALSE, msg |-> "Cannot regenerate fixtures",
          matches |-> ms, fixtures_generated |-> fg]
    ELSE LET r == generate_fixtures(ts, ms, fg, start_date, now)
         IN  IF r.ok /\ BackupPairs(ms) # {}
             THEN [r EXCEPT !.matches = RestoreResults(r.matches, ms)]
             ELSE r

AutoRegenerateFixtures(start_date, now) ==
    LET r == auto_regenerate_fixtures(teams, matches, fixtures_generated, start_date, now)
    IN  /\ matches' = r.matches
        /\ fixtures_generated' = r.fixtures_generated
        /\ last' = [op |-> "auto_regenerate_fixtures", ok |-> r.ok,
                    raised |-> r.raised, msg |-> r.msg,
                    start_date |-> start_date, now |-> now]
        /\ UNCHANGED <<teams, scheduler>>

(***************************************************************************)
(* Regeneration: a season of four teams with its fixtures generated; teams *)
(* are added, results recorded and the fixtures regenerated, in any order. *)
(***************************************************************************)
MaxRegenTeams == 6
MaxRegenPlayed == 1

RegenRosters == {SeasonRoster}

RegenNames == {"Gort", "Bye"}

RegenScores == {<<2, 1>>, <<0, 0>>}

InitRegen ==
    /\ teams \in RegenRosters
    /\ matches = NewFixtures(teams, ToOrdinal(SeasonStart))
    /\ fixtures_generated = TRUE
    /\ last = [op |-> "init"]
    /\ scheduler = NewScheduler

NextRegen ==
    \/ \E name \in RegenNames : AddTeam(name, "Park", "", MaxRegenTeams)
    \/ \E match_id \in MatchIds(matches), sc \in RegenScores :
          RecordResult(match_id, sc[1], sc[2], MaxRegenPlayed)
    \/ \E start_date \in StartDates, now \in NowDates :
          AutoRegenerateFixtures(start_date, now)

SpecRegen == InitRegen /\ [][NextRegen]_vars

\* the goals match m credits team_id with
GoalsOf(m, team_id) ==
    IF m.home_team_id = team_id THEN m.home_score[1] ELSE m.away_score[1]

\* C11: after a successful auto_regenerate_fixtures the match between two
\* teams that had a played match before the call is played and credits each
\* of them with the goals it had, whichever of them is now at home; every
\* other match is unplayed.
C11_RegenerateRestores ==
    [][(last'.op = "auto_regenerate_fixtures" /\ last'.ok)
          => \A k1, k2 \in DOMAIN teams :
                k1 < k2 =>
                  LET id1 == teams[k1].team_id
                      id2 == teams[k2].team_id
                      old == {i \in MatchesBetween(matches, id1, id2) : matches[i].played}
                      new == MatchesBetween(matches', id1, id2)
                  IN  IF old # {}
                      THEN /\ new # {}
                           /\ \A j \in new, i \in old :
                                 /\ matches'[j].played
                                 /\ matches'[j].home_score # None
                                 /\ matches'[j].away_score # None
                                 /\ GoalsOf(matches'[j], id1) = GoalsOf(matches[i], id1)
                                 /\ GoalsOf(matches'[j], id2) = GoalsOf(matches[i], id2)
                      ELSE \A j \in new :
                              /\ ~matches'[j].played
                              /\ matches'[j].home_score = None
                              /\ matches'[j].away_score = None]_vars

\* a regeneration has restored a 2-1 home win as a 1-2 away win, the winner
\* now playing away, next to matches that have no result
C11_Witness ==
    /\ last.op = "auto_regenerate_fixtures" /\ last.ok
    /\ \E j \in DOMAIN matches :
          /\ matches[j].played
          /\ matches[j].home_score = Some(1) /\ matches[j].away_score = Some(2)
    /\ \E j \in DOMAIN matches : ~matches[j].played

(***************************************************************************)
(* The balancer alone: balance_home_away_rotation is given any list of at  *)
(* most MaxBalRounds rounds of one or two pairs of BalPairs.               *)
(***************************************************************************)
MaxBalRounds == 3

BalTeam(name) == Team(name, "Park", "")

BalPairs ==
    {<<BalTeam("Ajax"), BalTeam("Cork")>>, <<BalTeam("Ajax"), BalTeam("Derby")>>,
     <<BalTeam("Cork"), BalTeam("Ajax")>>, <<BalTeam("Derby"), BalTeam("Cork")>>}

BalRound(k) == [1..k -> BalPairs]

InitBalance ==
    /\ teams = <<>>
    /\ matches = <<>>
    /\ fixtures_generated = FALSE
    /\ scheduler = NewScheduler
    /\ \E n \in 0..MaxBalRounds :
          \E rounds \in [1..n -> BalRound(1) \cup BalRound(2)] :
              last = [op |-> "input", rounds |-> rounds]

CallBalance ==
    /\ last.op = "input"
    /\ last' = [op |-> "balance_home_away_rotation", rounds |-> last.rounds,
                ret |-> balance_home_away_rotation(last.rounds)]
    /\ UNCHANGED <<teams, matches, fixtures_generated, scheduler>>

NextBalance == CallBalance

SpecBalance == InitBalance /\ [][NextBalance]_vars

\* C12: balance_home_away_rotation returns as many rounds as it is given,
\* every round with as many matches as the round given, the match at every
\* (round, position) between the same two teams; only home and away may be
\* exchanged, and the first round is returned as it is.
C12_BalancerKeepsPairs ==
    last.op = "balance_home_away_rotation" =>
        /\ Len(last.ret) = Len(last.rounds)
        /\ \A r \in DOMAIN last.rounds :
              /\ Len(last.ret[r]) = Len(last.rounds[r])
              /\ \A k \in DOMAIN last.rounds[r] :
                    \/ last.ret[r][k] = last.rounds[r][k]
                    \/ last.ret[r][k] = <<last.rounds[r][k][2], last.rounds[r][k][1]>>
        /\ last.rounds # <<>> => last.ret[1] = last.rounds[1]

\* the balancer has exchanged home and away in the third round, and left
\* the other match of that round alone
C12_Witness ==
    /\ last.op = "balance_home_away_rotation"
    /\ Len(last.rounds) = 3
    /\ Len(last.rounds[3]) = 2
    /\ last.ret[3][2] # last.rounds[3][2]
    /\ last.ret[3][1] = last.rounds[3][1]

(***************************************************************************)
(* Generation: teams are added to an empty league and fixtures generated,  *)
(* in any order, with any start_date.                                      *)
(***************************************************************************)
MaxGenTeams == 4

GenNames == {"Ajax", "Cork", "Derby", "Fahy", "Gort"}

\* start_date arguments: omitted, a date, and "2024-02-30"
GenStartDates == StartDates \cup {Some(<<2024, 2, 30>>)}

InitGenerate ==
    /\ teams = <<>>
    /\ matches = <<>>
    /\ fixtures_generated = FALSE
    /\ last = [op |-> "init"]
    /\ scheduler = NewScheduler

NextGenerate ==
    \/ \E name \in GenNames : AddTeam(name, "Park", "", MaxGenTeams)
    \/ \E start_date \in GenStartDates, now \in NowDates :
          GenerateFixtures(start_date, now)

SpecGenerate == InitGenerate /\ [][NextGenerate]_vars

\* team_id is at home in week w of ms
HomeInWeek(ms, team_id, w) ==
    \E i \in DOMAIN ms : ms[i].week = w /\ ms[i].home_team_id = team_id

AwayInWeek(ms, team_id, w) ==
    \E i \in DOMAIN ms : ms[i].week = w /\ ms[i].away_team_id = team_id

\* C13: in the schedule generate_fixtures produces for an even number of
\* teams, no team is at home in three consecutive weeks and no team is away
\* in three consecutive weeks.
C13_NoThreeInARow ==
    (last.op = "generate_fixtures" /\ last.ok /\ Len(teams) % 2 = 0)
        => \A k \in DOMAIN teams, w \in 1..(Len(teams) - 3) :
              /\ ~\A d \in 0..2 : HomeInWeek(matches, teams[k].team_id, w + d)
              /\ ~\A d \in 0..2 : AwayInWeek(matches, teams[k].team_id, w + d)

\* C14: in the schedule generate_fixtures produces for an even number of
\* teams, every team's number of home matches and number of away matches
\* differ by at most one.
C14_HomeAwayBalanced ==
    (last.op = "generate_fixtures" /\ last.ok /\ Len(teams) % 2 = 0)
        => \A k \in DOMAIN teams :
              LET home == Cardinality({i \in DOMAIN matches :
                              matches[i].home_team_id = teams[k].team_id})
                  away == Cardinality({i \in DOMAIN matches :
                              matches[i].away_team_id = teams[k].team_id})
              IN  home - away \in {0 - 1, 0, 1}

\* C19: generate_fixtures on a league whose fixtures_generated flag is true
\* and whose roster has changed since its fixtures were generated (a team of
\* the roster has no match among them) returns failure and leaves the match
\* list unchanged.
C19_RegenerateRejected ==
    [][(/\ last'.op = "generate_fixtures"
        /\ fixtures_generated
        /\ matches # <<>>
        /\ \E k \in DOMAIN teams : MatchesOf(matches, teams[k].team_id) = {})
          => (~last'.ok /\ matches' = matches)]_vars

\* C20: generate_fixtures never raises, whatever start_date is, and when it
\* does not succeed the match list and the fixtures_generated flag are as
\* they were before the call.
C20_GenerateNeverRaises ==
    [][last'.op = "generate_fixtures"
          => /\ ~last'.raised
             /\ ~last'.ok => /\ matches' = matches
                             /\ fixtures_generated' = fixtures_generated]_vars

(***************************************************************************)
(* A played match.                                                         *)
(***************************************************************************)
\* C15: once a match is recorded as played, every reschedule_match on it
\* returns failure, and no record_result or reschedule_match call, on it or
\* on another match, changes its week, its scores or its played flag.
C15_PlayedMatchFrozen ==
    [][last'.op \in {"record_result", "reschedule_match"}
          => \A i \in DOMAIN matches :
                matches[i].played
                   => /\ i \in DOMAIN matches'
                      /\ matches'[i].match_id = matches[i].match_id
                      /\ matches'[i].week = matches[i].week
                      /\ matches'[i].home_score = matches[i].home_score
                      /\ matches'[i].away_score = matches[i].away_score
                      /\ matches'[i].played
                      /\ (last'.op = "reschedule_match"
                            /\ last'.match_id = matches[i].match_id) => ~last'.ok]_vars

\* a played match was refused a week that is free for both its teams
C15_Witness ==
    /\ last.op = "reschedule_match" /\ ~last.ok
    /\ last.msg = "Cannot reschedule a match that has been played"
    /\ LET i == MatchIndex(matches, last.match_id)
       IN  /\ matches[i].played
           /\ matches[i].week # last.new_week
           /\ ~TeamBusyInWeek(matches, i, last.new_week)

(***************************************************************************)
(* edit_team and add_team.                                                 *)
(***************************************************************************)
\* C16: an edit_team call that returns failure changes no team's name or
\* stadium and leaves the team list as it was.
C16_EditFailureAppliesNothing ==
    [][(last'.op = "edit_team" /\ ~last'.ok)
          => RosterOf(teams') = RosterOf(teams)]_vars

\* C17: add_team of a team whose team_id is that of a team of the league,
\* or whose name is that of one ignoring case, or whose data fails
\* validation, returns failure and leaves the roster unchanged; any other
\* team is appended at the end of the roster and success returned.  The
\* team_ids of the roster are pairwise distinct in every state.
C17_AddTeam ==
    /\ [][last'.op = "add_team"
            => IF \/ \E k \in DOMAIN teams : teams[k].team_id = last'.team.team_id
                  \/ \E k \in DOMAIN teams :
                        Lower(teams[k].name) = Lower(last'.team.name)
                  \/ ~validate(last'.team)[1]
               THEN ~last'.ok /\ teams' = teams
               ELSE last'.ok /\ teams' = Append(teams, last'.team)]_vars
    /\ [](DistinctIds(teams))

\* a team was refused for its name, which a team of another id has in
\* another case since it was edited
C17_Witness ==
    /\ last.op = "add_team" /\ ~last.ok
    /\ last.msg = "A team with name already exists"
    /\ \A k \in DOMAIN teams : teams[k].team_id # last.team.team_id
    /\ \E k \in DOMAIN teams :
          /\ teams[k].name # last.team.name
          /\ Lower(teams[k].name) = Lower(last.team.name)

\* C18: in every state reached through generate_fixtures,
\* auto_regenerate_fixtures, reschedule_match with any integer new_week and
\* record_result, every match of the league has a week of at least 1.
C18_WeekAtLeastOne ==
    \A i \in DOMAIN matches : matches[i].week >= 1

(***************************************************************************)
(* Serialisation: to_dict and from_dict of Team, Match and League.  A      *)
(* dictionary is the record of its keys; from_dict passes the keys to the  *)
(* constructor, which for a team runs __post_init__.                       *)
(***************************************************************************)
Team_to_dict(t) ==
    [team_id |-> t.team_id, name |-> t.name, stadium |-> t.stadium,
     played |-> t.played, won |-> t.won, drawn |-> t.drawn, lost |-> t.lost,
     goals_for |-> t.goals_for, goals_against |-> t.goals_against,
     points |-> t.points]

\* a from_dict that reads the identity of the team only
Team_from_dict_no_stats(d) ==
    Team(d.name, d.stadium, d.team_id)

Team_from_dict(d) ==
    [Team(d.name, d.stadium, d.team_id) EXCEPT
        !.played = d.played, !.won = d.won, !.drawn = d.drawn,
        !.lost = d.lost, !.goals_for = d.goals_for,
        !.goals_against = d.goals_against, !.points = d.points]

Match_to_dict(m) ==
    [match_id |-> m.match_id, home_team_id |-> m.home_team_id,
     away_team_id |-> m.away_team_id, home_team_name |-> m.home_team_name,
     away_team_name |-> m.away_team_name, week |-> m.week,
     home_score |-> m.home_score, away_score |-> m.away_score,
     played |-> m.played, scheduled_date |-> m.scheduled_date]

Match_from_dict(d) ==
    [Match(d.match_id, d.home_team_id, d.away_team_id, d.home_team_name,
           d.away_team_name, d.week, d.scheduled_date) EXCEPT
        !.home_score = d.home_score, !.away_score = d.away_score,
        !.played = d.played]

League_to_dict(league) ==
    [name |-> league.name, season |-> league.season,
     teams |-> [i \in DOMAIN league.teams |-> Team_to_dict(league.teams[i])],
     matches |-> [i \in DOMAIN league.matches |-> Match_to_dict(league.matches[i])],
     fixtures_generated |-> league.fixtures_generated]

League_from_dict(data) ==
    [name |-> data.name, season |-> data.season,
     fixtures_generated |-> data.fixtures_generated,
     teams |-> [i \in DOMAIN data.teams |-> Team_from_dict(data.teams[i])],
     matches |-> [i \in DOMAIN data.matches |-> Match_from_dict(data.matches[i])]]

\* the league is written to its dictionary and read back from it
SaveAndLoad(name, season) ==
    LET league == [name |-> name, season |-> season, teams |-> teams,
                   matches |-> matches,
                   fixtures_generated |-> fixtures_generated]
        loaded == League_from_dict(League_to_dict(league))
    IN  /\ teams' = loaded.teams
        /\ matches' = loaded.matches
        /\ fixtures_generated' = loaded.fixtures_generated
        /\ last' = [op |-> "save_and_load", league |-> league, ret |-> loaded]
        /\ UNCHANGED scheduler

MaxSavedPlayed == 2

LeagueNames == {<<"Premier", "2024">>, <<"", "">>}

\* a league before its fixtures are generated, and the season
InitPersist ==
    /\ \/ /\ teams \in SeedRosters
          /\ matches = <<>>
          /\ fixtures_generated = FALSE
       \/ /\ teams = SeasonRoster
          /\ matches = SeasonFixtures
          /\ fixtures_generated = TRUE
    /\ last = [op |-> "init"]
    /\ scheduler = NewScheduler

NextPersist ==
    \/ \E match_id \in MatchIds(matches), sc \in ScorePairs :
          RecordResult(match_id, sc[1], sc[2], MaxSavedPlayed)
    \/ \E n \in LeagueNames : SaveAndLoad(n[1], n[2])

SpecPersist == InitPersist /\ [][NextPersist]_vars

\* C21: for every league state, League.from_dict(League.to_dict(league))
\* is a league of the same name and season, the same teams in order with
\* the same ids, names, stadiums and statistics, the same matches in order
\* with the same fields, and the same fixtures_generated flag.
C21_RoundTrip ==
    [][last'.op = "save_and_load"
          => /\ last'.ret = last'.league
             /\ teams' = teams
             /\ matches' = matches
             /\ fixtures_generated' = fixtures_generated]_vars

\* a league read back with a recorded result and matches still to play
C21_Witness ==
    /\ last.op = "save_and_load"
    /\ fixtures_generated
    /\ \E i \in DOMAIN teams : teams[i].played > 0 /\ teams[i].points > 0
    /\ \E i \in DOMAIN matches : matches[i].played
    /\ \E i \in DOMAIN matches : ~matches[i].played

(***************************************************************************)
(* Odd rosters and the bye placeholder.                                    *)
(***************************************************************************)
OddRoster(ts) == Len(ts) >= 3 /\ Len(ts) % 2 = 1

\* the teams of ts that are in no pair of the round
IdleIn(round, ts) == {a \in IdsOf(ts) : Appearances(round, a) = 0}

\* C22: for every roster of odd size N >= 3, the output of
\* generate_round_robin_pairs has no pair with the placeholder, every round
\* has exactly (N-1)/2 matches and exactly one idle team, every team is idle
\* in exactly one round, and every unordered pair of roster teams meets in
\* exactly one round; the caller's list is not modified.
C22_OddRosterByes ==
    (last.op = "generate_round_robin_pairs" /\ OddRoster(teams))
        => LET rounds == last.ret
               n == Len(teams)
           IN  /\ \A r \in DOMAIN rounds :
                     /\ Len(rounds[r]) = (n - 1) \div 2
                     /\ \A k \in DOMAIN rounds[r] :
                           /\ rounds[r][k][1] \in Range(teams)
                           /\ rounds[r][k][2] \in Range(teams)
                     /\ Cardinality(IdleIn(rounds[r], teams)) = 1
               /\ \A a \in IdsOf(teams) :
                     Cardinality({r \in DOMAIN rounds :
                                     a \in IdleIn(rounds[r], teams)}) = 1
               /\ \A a, b \in IdsOf(teams) :
                     a # b => Meetings(rounds, a, b) = 1

\* C23: for any roster accepted by add_team, one with a team whose team_id
\* is "bye" included, generate_round_robin_pairs omits no match between two
\* roster teams: every roster team meets every other exactly once.
C23_OnlyPlaceholderDropped ==
    (last.op = "generate_round_robin_pairs" /\ Len(teams) >= 2)
        => \A a, b \in IdsOf(teams) :
              a # b => Meetings(last.ret, a, b) = 1

(***************************************************************************)
(* The staged scheduler: B1 generate_round_robin_fixtures, B2              *)
(* apply_home_away_rotation, B3 organize_fixtures_by_week.  sch is the     *)
(* scheduler's fields; each step returns (success, message) and the fields *)
(* of the league and of the scheduler after the call.                      *)
(***************************************************************************)
_validate_league(ts) ==
    IF Len(ts) < 2 THEN <<FALSE, "League must have at least 2 teams">>
    ELSE IF Len(ts) % 2 # 0 THEN <<FALSE, "League must have even number of teams">>
    ELSE <<TRUE, "League is valid">>

generate_round_robin_fixtures(ts, ms, sch) ==
    IF ~_validate_league(ts)[1]
    THEN [ok |-> FALSE, msg |-> _validate_league(ts)[2], matches |-> ms,
          scheduler |-> sch]
    ELSE [ok |-> TRUE, msg |-> "B1 Complete", matches |-> <<>>,
          scheduler |-> [sch EXCEPT !.rounds = generate_round_robin_pairs(ts)]]

\* a B2 that does not look at _rounds
apply_home_away_rotation_unchecked(sch) ==
    [ok |-> TRUE, msg |-> "B2 Complete",
     scheduler |-> [sch EXCEPT !.balanced_rounds =
                                  balance_home_away_rotation(sch.rounds)]]

apply_home_away_rotation(sch) ==
    IF sch.rounds = <<>>
    THEN [ok |-> FALSE, msg |-> "Must generate round-robin fixtures first (B1)",
          scheduler |-> sch]
    ELSE [ok |-> TRUE, msg |-> "B2 Complete",
          scheduler |-> [sch EXCEPT !.balanced_rounds =
                                       balance_home_away_rotation(sch.rounds)]]

\* strptime raises ValueError for a start_date that is no date, before any
\* match is appended
organize_fixtures_by_week(ms, fg, sch, start_date, now) ==
    IF sch.balanced_rounds = <<>>
    THEN [ok |-> FALSE, raised |-> FALSE,
          msg |-> "Must apply home/away rotation first (B2)",
          matches |-> ms, fixtures_generated |-> fg]
    ELSE IF start_date # None /\ ~IsDate(start_date[1])
    THEN [ok |-> FALSE, raised |-> TRUE, msg |-> "ValueError",
          matches |-> ms, fixtures_generated |-> fg]
    ELSE [ok |-> TRUE, raised |-> FALSE, msg |-> "B3 Complete",
          matches |-> ms \o OrganizeWeeks(sch.balanced_rounds, 1,
                             ToOrdinal(IF start_date # None THEN start_date[1]
                                       ELSE now)),
          fixtures_generated |-> TRUE]

\* the history of the steps that returned success
Succeeded(sch, step, ok) ==
    [sch EXCEPT !.succeeded = IF ok THEN @ \cup {step} ELSE @]

GenerateRoundRobinFixtures ==
    LET r == generate_round_robin_fixtures(teams, matches, scheduler)
    IN  /\ matches' = r.matches
        /\ scheduler' = Succeeded(r.scheduler, "generate_round_robin_fixtures",
                                  r.ok /\ r.scheduler.rounds # <<>>)
        /\ last' = [op |-> "generate_round_robin_fixtures", ok |-> r.ok,
                    msg |-> r.msg]
        /\ UNCHANGED <<teams, fixtures_generated>>

ApplyHomeAwayRotation ==
    LET r == apply_home_away_rotation(scheduler)
    IN  /\ scheduler' = Succeeded(r.scheduler, "apply_home_away_rotation", r.ok)
        /\ last' = [op |-> "apply_home_away_rotation", ok |-> r.ok, msg |-> r.msg]
        /\ UNCHANGED <<teams, matches, fixtures_generated>>

OrganizeFixturesByWeek(start_date, now, max_matches) ==
    LET r == organize_fixtures_by_week(matches, fixtures_generated, scheduler,
                                       start_date, now)
    IN  /\ Len(r.matches) <= max_matches
        /\ matches' = r.matches
        /\ fixtures_generated' = r.fixtures_generated
        /\ scheduler' = Succeeded(scheduler, "organize_fixtures_by_week", r.ok)
        /\ last' = [op |-> "organize_fixtures_by_week", ok |-> r.ok,
                    raised |-> r.raised, msg |-> r.msg,
                    start_date |-> start_date, now |-> now]
        /\ UNCHANGED teams

MaxStagedTeams == 4
MaxStagedMatches == 7
MaxStagedPlayed == 1

StagedRosters ==
    {<<Team("Ajax", "Park", ""), Team("Cork", "Park", "")>>,
     <<Team("Ajax", "Park", ""), Team("Cork", "Park", ""),
       Team("Derby", "Park", "")>>}

StagedNames == {"Fahy"}

StagedRemoveIds == {"cork"}

StagedStartDates == {Some(<<2024, 2, 20>>), Some(<<2024, 2, 30>>)}

InitStaged ==
    /\ teams \in StagedRosters
    /\ matches = <<>>
    /\ fixtures_generated = FALSE
    /\ last = [op |-> "init"]
    /\ scheduler = NewScheduler

NextStaged ==
    \/ \E name \in StagedNames : AddTeam(name, "Park", "", MaxStagedTeams)
    \/ \E team_id \in StagedRemoveIds : RemoveTeam(team_id)
    \/ GenerateRoundRobinFixtures
    \/ ApplyHomeAwayRotation
    \/ \E start_date \in StagedStartDates, now \in NowDates :
          OrganizeFixturesByWeek(start_date, now, MaxStagedMatches)
    \/ \E match_id \in MatchIds(matches) :
          RecordResult(match_id, 2, 1, MaxStagedPlayed)

SpecStaged == InitStaged /\ [][NextStaged]_vars

StagedSteps ==
    {"generate_round_robin_fixtures", "apply_home_away_rotation",
     "organize_fixtures_by_week"}

\* C24: every record_result call that returns failure (unknown match id,
\* negative score, match already played, or a match whose home or away team
\* id is not in the roster) leaves every match and every team's statistics
\* unchanged.
C24_RecordFailureAppliesNothing ==
    [][(last'.op = "record_result" /\ ~last'.ok)
          => matches' = matches /\ teams' = teams]_vars

\* C29: apply_home_away_rotation succeeds only after a
\* generate_round_robin_fixtures that succeeded with a non-empty round list,
\* organize_fixtures_by_week succeeds only after an apply_home_away_rotation
\* that succeeded, fixtures_generated becomes true only through a successful
\* organize_fixtures_by_week, and a failing step changes neither the match
\* list nor the flag.
C29_StagedOrder ==
    [][/\ (last'.op = "apply_home_away_rotation" /\ last'.ok)
            => "generate_round_robin_fixtures" \in scheduler.succeeded
       /\ (last'.op = "organize_fixtures_by_week" /\ last'.ok)
            => "apply_home_away_rotation" \in scheduler.succeeded
       /\ (fixtures_generated' /\ ~fixtures_generated)
            => last'.op = "organize_fixtures_by_week" /\ last'.ok
       /\ (last'.op \in StagedSteps /\ ~last'.ok)
            => matches' = matches /\ fixtures_generated' = fixtures_generated
      ]_vars

\* the three steps have succeeded in order and the flag is set
C29_Witness ==
    /\ last.op = "organize_fixtures_by_week" /\ last.ok
    /\ scheduler.succeeded = StagedSteps
    /\ fixtures_generated
    /\ Len(matches) = 6

\* C30: after every successful organize_fixtures_by_week, in any
\* interleaving of the three steps and add_team, the match list is a single
\* round-robin of the current roster: each unordered pair of current teams
\* occurs exactly once, match ids are pairwise distinct, and
\* validate_fixtures reports no error.
C30_OrganizedIsRoundRobin ==
    (last.op = "organize_fixtures_by_week" /\ last.ok)
        => /\ \A a, b \in IdsOf(teams) :
                 a # b => Cardinality({i \in DOMAIN matches :
                             {matches[i].home_team_id,
                              matches[i].away_team_id} = {a, b}}) = 1
           /\ \A i, j \in DOMAIN matches :
                 i # j => matches[i].match_id # matches[j].match_id
           /\ validate_fixtures(matches, teams)[1]

(***************************************************************************)
(* The table against the match list.                                       *)
(***************************************************************************)
\* the played matches of the team
PlayedOf(ms, team_id) ==
    {i \in DOMAIN ms :
        is_played(ms[i]) /\ team_id \in {ms[i].home_team_id, ms[i].away_team_id}}

\* the goals the team conceded in the played match m
ConcededIn(m, team_id) ==
    IF m.home_team_id = team_id THEN m.away_score[1] ELSE m.home_score[1]

RECURSIVE SumOver(_, _, _, _)
SumOver(ms, I, team_id, goals_for) ==
    IF I = {} THEN 0
    ELSE LET i == CHOOSE k \in I : TRUE
         IN  (IF goals_for THEN GoalsOf(ms[i], team_id)
              ELSE ConcededIn(ms[i], team_id))
             + SumOver(ms, I \ {i}, team_id, goals_for)

PointsFrom(ms, team_id) ==
    3 * Cardinality({i \in PlayedOf(ms, team_id) :
                        GoalsOf(ms[i], team_id) > ConcededIn(ms[i], team_id)})
    + Cardinality({i \in PlayedOf(ms, team_id) :
                      GoalsOf(ms[i], team_id) = ConcededIn(ms[i], team_id)})

\* C25: in every state reached by add_team, generate_fixtures,
\* record_result, reschedule_match and auto_regenerate_fixtures, each team's
\* played count, goals for and against and points are those of the played
\* matches of the match list that involve the team.
C25_StatsAgreeWithMatches ==
    \A k \in DOMAIN teams :
        LET t == teams[k]
            I == PlayedOf(matches, t.team_id)
        IN  /\ t.played = Cardinality(I)
            /\ t.goals_for = SumOver(matches, I, t.team_id, TRUE)
            /\ t.goals_against = SumOver(matches, I, t.team_id, FALSE)
            /\ t.points = PointsFrom(matches, t.team_id)

\* C28: in every state reached by add_team, remove_team and edit_team,
\* successful or failed, no two teams of the league have the same name
\* compared ignoring case.
C28_NamesDistinct ==
    \A i, j \in DOMAIN teams :
        i # j => Lower(teams[i].name) # Lower(teams[j].name)

(***************************************************************************)
(* The fixtures_generated flag under every operation of the league, the    *)
(* scheduler and the results manager.                                      *)
(***************************************************************************)
MaxFlagTeams == 4
MaxFlagPlayed == 1

FlagAdds == {"Bye"}

FlagStartDates == {Some(<<2024, 2, 20>>), Some(<<2024, 2, 30>>)}

NextFlag ==
    \/ \E name \in FlagAdds : AddTeam(name, "Park", "", MaxFlagTeams)
    \/ RemoveTeam("ajax")
    \/ EditTeam("ajax", "Zed", "")
    \/ \E start_date \in FlagStartDates, now \in NowDates :
          GenerateFixtures(start_date, now)
    \/ \E now \in NowDates : AutoRegenerateFixtures(None, now)
    \/ \E match_id \in MatchIds(matches) \ {NoMatchId} :
          RecordResult(match_id, 1, 0, MaxFlagPlayed)
    \/ \E match_id \in MatchIds(matches) \ {NoMatchId} :
          RescheduleMatch(match_id, 4, 1)

SpecFlag == Init /\ [][NextFlag]_vars

\* C27: no operation sets fixtures_generated back to false, so once it is
\* true every remove_team and edit_team call is rejected and changes
\* nothing, after auto_regenerate_fixtures too.
C27_FlagMonotone ==
    [][/\ fixtures_generated => fixtures_generated'
       /\ (fixtures_generated /\ last'.op \in {"remove_team", "edit_team"})
            => ~last'.ok /\ teams' = teams]_vars

\* a team of the roster could not be removed from the league, whose
\* fixtures are generated
C27_Witness ==
    /\ last.op = "remove_team" /\ ~last.ok
    /\ last.msg = "Cannot remove teams after fixtures are generated"
    /\ TeamIndex(teams, last.team_id) # 0
    /\ fixtures_generated /\ matches # <<>>

(***************************************************************************)
(* The weeks of the season under every operation that writes a schedule.   *)
(***************************************************************************)
MaxWeeksMoved == 2
MaxWeeksPlayed == 1

WeeksStartDates == {Some(SeasonStart), Some(<<2024, 2, 30>>)}

NextWeeks ==
    \/ \E start_date \in WeeksStartDates, now \in NowDates :
          GenerateFixtures(start_date, now)
    \/ \E now \in NowDates : AutoRegenerateFixtures(Some(SeasonStart), now)
    \/ \E match_id \in MatchIds(matches) :
          RescheduleMatch(match_id, 4, MaxWeeksMoved)
    \/ \E match_id \in MatchIds(matches) :
          RecordResult(match_id, 0, 0, MaxWeeksPlayed)

SpecWeeks == InitSeason /\ [][NextWeeks]_vars

\* C26: in every state reached by generate_fixtures,
\* auto_regenerate_fixtures, reschedule_match and record_result, successful
\* or not, no team appears in two matches of the same week, and
\* validate_fixtures reports no week clash.
C26_NoWeekClash ==
    /\ \A i, j \in DOMAIN matches :
          (i # j /\ matches[i].week = matches[j].week)
             => {matches[i].home_team_id, matches[i].away_team_id}
                \cap {matches[j].home_team_id, matches[j].away_team_id} = {}
    /\ WeekClashErrors(matches, 1, {}) = <<>>

\* a match was moved into a week that has another match, of two other teams
C26_Witness ==
    /\ last.op = "reschedule_match" /\ last.ok
    /\ LET i == MatchIndex(matches, last.match_id)
       IN  /\ matches[i].week = last.new_week
           /\ matches[i].week # last.match_id[1]
           /\ \E j \in DOMAIN matches :
                 j # i /\ matches[j].week = matches[i].week

====
